---- MODULE Spec2Model ----
(***************************************************************************)
(* Model of tools/plot_task_dependencies.py (SWIFT): the script that turns *)
(* a task-dependency CSV into a graphviz description and renders it.       *)
(*                                                                         *)
(* Task names, cluster names, first lines of files and colours are TLA+    *)
(* strings; the substring tests, the "%s_%s" key of write_dependencies and *)
(* the slicing of get_git_version are computed on their characters.        *)
(* The output stream f is the sequence of statements written to the .dot   *)
(* file, one record per f.write of a node, cluster, edge, header, footer.  *)
(***************************************************************************)
EXTENDS Integers, Sequences, FiniteSets, TLC

VARIABLES
    pc,        \* position of the __main__ script
    args,      \* parsed command line flags: [with_calls, with_levels]
    files,     \* positional arguments: one record per named file
    k,         \* index in files of the file the for-loop is at
    data,      \* the DataFrame of the current file (a sequence of rows)
    git,       \* the variable git of __main__: [set |-> BOOLEAN, v |-> STRING]
    f,         \* what has been written to the current .dot file
    reads,     \* indices of the input files that have been read
    dots,      \* indices of the files whose .dot was opened for writing
    rendered,  \* indices of the files the renderer (dot -Tpng) was called on
    err        \* the uncaught exception that ended the run, "" if none

vars == <<pc, args, files, k, data, git, f, reads, dots, rendered, err>>

----------------------------------------------------------------------------
(* Bounds of the model *)

MaxFiles == 2
MaxFrags == 2
MaxDepRows == 3
MaxRank == 3
MaxHeaderRows == 2
MaxClusterRows == 2

----------------------------------------------------------------------------
(* Python string operations *)

Range(s) == { s[i] : i \in 1..Len(s) }

\* t in s
Contains(s, t) ==
    \E p \in 1..(Len(s) - Len(t) + 1) : SubSeq(s, p, p + Len(t) - 1) = t

\* s.startswith(t)
StartsWith(s, t) == Len(s) >= Len(t) /\ SubSeq(s, 1, Len(t)) = t

\* the characters str.rstrip() strips that occur in the modelled inputs
Whitespace == {" ", "\n", "\t"}

RECURSIVE rstrip(_)
rstrip(s) ==
    IF Len(s) > 0 /\ SubSeq(s, Len(s), Len(s)) \in Whitespace
    THEN rstrip(SubSeq(s, 1, Len(s) - 1))
    ELSE s

\* the characters of the modelled names, in code point order
Alphabet == "0123456789ABCDEFGHIJKLMNOPQRSTUVWXYZ_abcdefghijklmnopqrstuvwxyz"

CharCode(c) == CHOOSE n \in 1..Len(Alphabet) : SubSeq(Alphabet, n, n) = c

\* s < t  for Python strings (lexicographic by code point)
RECURSIVE StrLess(_, _)
StrLess(s, t) ==
    IF Len(t) = 0 THEN FALSE
    ELSE IF Len(s) = 0 THEN TRUE
    ELSE LET a == CharCode(SubSeq(s, 1, 1))
             b == CharCode(SubSeq(t, 1, 1))
         IN IF a # b THEN a < b
            ELSE StrLess(SubSeq(s, 2, Len(s)), SubSeq(t, 2, Len(t)))

\* np.unique: the distinct values, sorted
RECURSIVE np_unique(_)
np_unique(S) ==
    IF S = {} THEN << >>
    ELSE LET m == CHOOSE x \in S : \A y \in S \ {x} : StrLess(x, y)
         IN <<m>> \o np_unique(S \ {m})

----------------------------------------------------------------------------
(* The task classifier *)

task_colours ==
    [black_holes |-> "forestgreen",
     stars       |-> "darkorange1",
     hydro       |-> "blue3",
     gravity     |-> "red3",
     RT          |-> "springgreen",
     sink        |-> "lightseagreen"]

task_is_black_holes(name) ==
    Contains(name, "bh") \/ Contains(name, "bpart") \/ Contains(name, "swallow")

task_is_stars(name) ==
    \/ Contains(name, "stars") \/ Contains(name, "spart")
    \/ Contains(name, "sf_count")

hydro_task_name ==
    {"sort", "ghost_in", "ghost", "ghost_out", "extra_ghost", "cooling",
     "cooling_in", "cooling_out", "star_formation"}

task_is_hydro_no_density(name) ==
    \/ Contains(name, "hydro")
    \/ Contains(name, "_part")
    \/ Contains(name, "rho") /\ ~Contains(name, "bpart")
    \/ Contains(name, "gradient") /\ ~Contains(name, "rt_gradient")
    \/ Contains(name, "force") /\ ~Contains(name, "grav")
    \/ Contains(name, "xv") /\ ~Contains(name, "bpart")
    \/ name \in hydro_task_name

task_is_hydro(name) ==
    \/ Contains(name, "hydro")
    \/ Contains(name, "_part")
    \/ Contains(name, "density") /\ ~Contains(name, "stars") /\ ~Contains(name, "bh")
    \/ Contains(name, "rho") /\ ~Contains(name, "bpart")
    \/ Contains(name, "gradient") /\ ~Contains(name, "rt_gradient")
    \/ Contains(name, "force") /\ ~Contains(name, "grav")
    \/ Contains(name, "xv") /\ ~Contains(name, "bpart")
    \/ name \in hydro_task_name

task_is_gravity(name) == Contains(name, "gpart") \/ Contains(name, "grav")

task_is_RT(name) == Contains(name, "_rt") \/ StartsWith(name, "rt_")

task_is_sink(name) == Contains(name, "sink")

get_task_colour_stars_first(taskname) ==
    IF task_is_stars(taskname) THEN task_colours.stars
    ELSE IF task_is_black_holes(taskname) THEN task_colours.black_holes
    ELSE IF task_is_hydro(taskname) THEN task_colours.hydro
    ELSE IF task_is_gravity(taskname) THEN task_colours.gravity
    ELSE IF task_is_RT(taskname) THEN task_colours.RT
    ELSE IF task_is_sink(taskname) THEN task_colours.sink
    ELSE "black"

get_task_colour_RT_first(taskname) ==
    IF task_is_black_holes(taskname) THEN task_colours.black_holes
    ELSE IF task_is_stars(taskname) THEN task_colours.stars
    ELSE IF task_is_hydro(taskname) THEN task_colours.hydro
    ELSE IF task_is_RT(taskname) THEN task_colours.RT
    ELSE IF task_is_gravity(taskname) THEN task_colours.gravity
    ELSE IF task_is_sink(taskname) THEN task_colours.sink
    ELSE "black"

get_task_colour(taskname) ==
    IF task_is_black_holes(taskname) THEN task_colours.black_holes
    ELSE IF task_is_stars(taskname) THEN task_colours.stars
    ELSE IF task_is_hydro(taskname) THEN task_colours.hydro
    ELSE IF task_is_gravity(taskname) THEN task_colours.gravity
    ELSE IF task_is_RT(taskname) THEN task_colours.RT
    ELSE IF task_is_sink(taskname) THEN task_colours.sink
    ELSE "black"

\* get_function_calls(name) is not None
has_function_calls(name) ==
    \/ name \in {"ghost", "cooling", "timestep", "drift_part", "kick1", "kick2",
                 "end_force", "drift_gpart"}
    \/ Contains(name, "density") /\ ~Contains(name, "stars")
    \/ Contains(name, "force") /\ ~Contains(name, "end")

----------------------------------------------------------------------------
(* Version reader *)

None == [set |-> FALSE, v |-> ""]

Some(s) == [set |-> TRUE, v |-> s]

\* get_git_version(f, git) on a file whose first line is `line`:
\* the value returned, or the exception raised
get_git_version(line, g) ==
    IF SubSeq(line, 1, 1) # "#"
    THEN [raised |-> FALSE, value |-> None]
    ELSE LET new_git == rstrip(SubSeq(line, 3, Len(line)))
         IN IF g.set /\ g.v # new_git
            THEN [raised |-> TRUE, value |-> None]
            ELSE [raised |-> FALSE, value |-> Some(new_git)]

----------------------------------------------------------------------------
(* Node writer *)

\* the level string of write_task under with_levels
levelstr(top, hydro_super, grav_super) ==
    LET l0 == IF top THEN "top" ELSE ""
        sep(l) == IF Len(l) > 0 THEN l \o " / " ELSE l
        l1 == IF hydro_super /\ ~grav_super THEN sep(l0) \o "hydro super" ELSE l0
        l2 == IF grav_super /\ ~hydro_super THEN sep(l1) \o "grav super" ELSE l1
        l3 == IF grav_super /\ hydro_super THEN sep(l2) \o "super" ELSE l2
    IN IF ~top /\ ~grav_super /\ ~hydro_super THEN "below super" ELSE l3

Pink == "style=filled,fillcolor=lightpink2"
Grey == "style=filled,fillcolor=grey90"
Diamond == "shape=diamond,style=filled,fillcolor=azure"

\* write_task: one node declaration appended to f; attrs are the
\* comma-separated attributes between the brackets, in order
write_task(out, name, implicit, mpi, top, hydro_super, grav_super, cell_has_active_task, with_calls, with_levels) ==
    LET a1 == IF ~cell_has_active_task THEN <<Pink>>
              ELSE IF implicit # 0 THEN <<Grey>> ELSE << >>
        a2 == IF mpi # 0 THEN <<Diamond>> ELSE << >>
        a3 == IF with_levels
              THEN <<"label=" \o name \o " " \o levelstr(top, hydro_super, grav_super)>>
              ELSE << >>
        a4 == <<"color=" \o get_task_colour(name)>>
        a5 == IF with_calls /\ has_function_calls(name)
              THEN <<"label=calls:" \o name>> ELSE << >>
    IN Append(out, [kind |-> "node", name |-> name,
                    attrs |-> a1 \o a2 \o a3 \o a4 \o a5])

----------------------------------------------------------------------------
(* Header writer *)

InWritten_never(t, written) == FALSE

\* `ta in written` / `tb in written` / `name in written`
InWritten(t, written) == t \in Range(written)

\* the first loop of write_header, from row i on: [out, written]
RECURSIVE header_task_in(_, _, _, _, _)
header_task_in(out, d, i, written, opt) ==
    IF i > Len(d) THEN [out |-> out, written |-> written]
    ELSE LET ta == d[i].task_in
         IN IF InWritten(ta, written)
            THEN header_task_in(out, d, i + 1, written, opt)
            ELSE header_task_in(
                     write_task(out, ta, d[i].implicit_in, d[i].mpi_in,
                                d[i].task_in_is_top = 1,
                                d[i].task_in_is_hydro_super = 1,
                                d[i].task_in_is_grav_super = 1,
                                TRUE, opt.with_calls, opt.with_levels),
                     d, i + 1, Append(written, ta), opt)

TaskOutActive_always(row) == TRUE

\* the cell_has_active_task argument of the second loop's write_task
TaskOutActive(row) == row.cell_has_active_task = 1

\* the second loop of write_header, from row i on
RECURSIVE header_task_out(_, _, _, _, _)
header_task_out(out, d, i, written, opt) ==
    IF i > Len(d) THEN [out |-> out, written |-> written]
    ELSE LET tb == d[i].task_out
         IN IF InWritten(tb, written)
            THEN header_task_out(out, d, i + 1, written, opt)
            ELSE header_task_out(
                     write_task(out, tb, d[i].implicit_out, d[i].mpi_out,
                                d[i].task_out_is_top = 1,
                                d[i].task_out_is_hydro_super = 1,
                                d[i].task_out_is_grav_super = 1,
                                TaskOutActive(d[i]), opt.with_calls, opt.with_levels),
                     d, i + 1, Append(written, tb), opt)

write_header(out, d, g, opt) ==
    LET h == Append(out, [kind |-> "header",
                          label |-> IF g.set THEN g.v ELSE "None"])
        r1 == header_task_in(h, d, 1, << >>, opt)
        r2 == header_task_out(r1.out, d, 1, r1.written, opt)
    IN r2.out

----------------------------------------------------------------------------
(* Cluster writer *)

IsSentinel_never(cluster) == FALSE

\* `cluster == "None"`
IsSentinel(cluster) == cluster = "None"

\* write_cluster: one subgraph block
write_cluster(out, tasks, cluster) ==
    Append(out, [kind |-> "cluster", name |-> "cluster" \o cluster,
                 tasks |-> tasks])

RECURSIVE clusters_loop(_, _, _, _)
clusters_loop(out, d, clusters, c) ==
    IF c > Len(clusters) THEN out
    ELSE IF IsSentinel(clusters[c]) THEN clusters_loop(out, d, clusters, c + 1)
    ELSE LET ta == { d[i].task_in : i \in { j \in 1..Len(d) : d[j].cluster_in = clusters[c] } }
             tb == { d[i].task_out : i \in { j \in 1..Len(d) : d[j].cluster_out = clusters[c] } }
             tasks == np_unique(ta \cup tb)
         IN clusters_loop(write_cluster(out, tasks, clusters[c]), d, clusters, c + 1)

write_clusters(out, d) ==
    LET clusters == np_unique({ d[i].cluster_in : i \in 1..Len(d) }
                              \cup { d[i].cluster_out : i \in 1..Len(d) })
    IN clusters_loop(out, d, clusters, 1)

----------------------------------------------------------------------------
(* Dependency writer *)

\* "%s_%s" % (ta, tb)
DepName(ta, tb) == ta \o "_" \o tb

\* data["number_rank"].max()
RankMax(d) ==
    IF Len(d) = 0 THEN 0
    ELSE CHOOSE m \in { d[i].number_rank : i \in 1..Len(d) } :
             \A i \in 1..Len(d) : d[i].number_rank <= m

\* the loop of write_dependencies, from row i on: what was written, and
\* whether "Found two same task dependencies" was raised
RECURSIVE dependencies_loop(_, _, _, _, _)
dependencies_loop(out, d, i, written, max_rank) ==
    IF i > Len(d) THEN [out |-> out, raised |-> FALSE]
    ELSE LET name == DepName(d[i].task_in, d[i].task_out)
         IN IF InWritten(name, written)
            THEN [out |-> out, raised |-> TRUE]
            ELSE dependencies_loop(
                     Append(out, [kind |-> "edge",
                                  task_in |-> d[i].task_in,
                                  task_out |-> d[i].task_out,
                                  label |-> d[i].number_link,
                                  color |-> d[i].task_colour,
                                  dashed |-> d[i].number_rank # max_rank,
                                  fontcolor |-> d[i].task_colour]),
                     d, i + 1, Append(written, name), max_rank)

write_dependencies(out, d) == dependencies_loop(out, d, 1, << >>, RankMax(d))

write_footer(out) == Append(out, [kind |-> "footer"])

\* set_task_colours: the column task_colour, from task_in
set_task_colours(d) ==
    [i \in 1..Len(d) |-> d[i] @@ [task_colour |-> get_task_colour(d[i].task_in)]]

----------------------------------------------------------------------------
(* Argument/file resolver *)

ErrFileNotFound == "FileNotFoundError: You need to provide one file"
ErrFlags == "ValueError: I can't run with --with-calls and --with-levels simultaneously. Pick one!"
ErrVersion == "Exception: Files were not produced by the same version"
ErrDuplicate == "Exception: Found two same task dependencies"

parse_args_no_flag_check(a, fs) ==
    IF \E i \in 1..Len(fs) : ~fs[i].exists THEN ErrFileNotFound ELSE ""

\* the exception parse_args raises on arguments a and files fs, "" if none
parse_args(a, fs) ==
    IF \E i \in 1..Len(fs) : ~fs[i].exists THEN ErrFileNotFound
    ELSE IF a.with_calls /\ a.with_levels THEN ErrFlags
    ELSE ""

----------------------------------------------------------------------------
(* The inputs *)

\* a row of the CSV, as read_csv returns it
Row(ta, tb) ==
    [task_in |-> ta, task_out |-> tb,
     implicit_in |-> 0, implicit_out |-> 0, mpi_in |-> 0, mpi_out |-> 0,
     task_in_is_top |-> 0, task_in_is_hydro_super |-> 1, task_in_is_grav_super |-> 0,
     task_out_is_top |-> 1, task_out_is_hydro_super |-> 0, task_out_is_grav_super |-> 0,
     cluster_in |-> "None", cluster_out |-> "None",
     number_link |-> 1, number_rank |-> 1, cell_has_active_task |-> 1]

\* all tables of at most n rows drawn from the set rows
Tables(rows, n) == UNION { [1..m -> rows] : m \in 0..n }

File(t) == [exists |-> TRUE, line |-> "# v0.9.0-1-gabcdef\n", table |-> t]

NoFlags == [with_calls |-> FALSE, with_levels |-> FALSE]

\* command lines of several files
CleanTable == <<Row("sort", "ghost_in"), Row("ghost_in", "ghost")>>
DuplicateTable == <<Row("sort", "ghost_in"), Row("sort", "ghost_in")>>

FirstLines == {"# v1\n", "# v2 \n", "v1\n"}

MainFiles ==
    [exists : BOOLEAN, line : FirstLines, table : {CleanTable, DuplicateTable}]

\* task names built from the markers the classifier looks for
Frags ==
    {"bh", "bpart", "swallow", "stars", "spart", "sf_count", "hydro", "_part",
     "density", "rho", "gradient", "rt_", "force", "grav", "gpart", "xv", "_rt",
     "sink", "sort", "end", "kick", "_", "b", "h"}

RECURSIVE FragNames(_)
FragNames(n) ==
    IF n = 0 THEN {""} ELSE { a \o b : a \in Frags, b \in FragNames(n - 1) }

Names == UNION { FragNames(n) : n \in 1..MaxFrags }

\* tables of the dependency writer: ranks and colliding names
DepNames == {"sort", "sort_sort"}

DepRows ==
    { [Row(ta, tb) EXCEPT !.number_rank = r] :
        ta \in DepNames, tb \in DepNames, r \in 1..MaxRank }

\* tables of the header writer: flags that differ from row to row
HeaderNames == {"sort", "kick1"}

HeaderRows ==
    { [Row(ta, tb) EXCEPT !.implicit_in = ii, !.implicit_out = io,
                          !.cell_has_active_task = act] :
        ta \in HeaderNames, tb \in HeaderNames,
        ii \in {0, 1}, io \in {0, 1}, act \in {0, 1} }

\* tables of the cluster writer
ClusterNames == {"None", "none", "clusterA"}

ClusterRows ==
    { [Row(ta, tb) EXCEPT !.cluster_in = ci, !.cluster_out = co] :
        ta \in {"sort", "kick1"}, tb \in {"kick1", "timestep"},
        ci \in ClusterNames, co \in ClusterNames }

----------------------------------------------------------------------------
(* The script *)

InitOn(argset, fileseqs) ==
    /\ pc = "parse_args"
    /\ args \in argset
    /\ files \in fileseqs
    /\ k = 0
    /\ data = << >>
    /\ git = None
    /\ f = << >>
    /\ reads = {}
    /\ dots = {}
    /\ rendered = {}
    /\ err = ""

Init ==
    InitOn([with_calls : BOOLEAN, with_levels : BOOLEAN],
           UNION { [1..n -> MainFiles] : n \in 1..MaxFiles })

InitColours ==
    InitOn({NoFlags}, { <<File(<<Row(n, "kick1")>>)>> : n \in Names })

InitDeps ==
    InitOn({NoFlags}, { <<File(t)>> : t \in Tables(DepRows, MaxDepRows) })

InitHeader ==
    InitOn({NoFlags}, { <<File(t)>> : t \in Tables(HeaderRows, MaxHeaderRows) })

InitClusters ==
    InitOn({NoFlags}, { <<File(t)>> : t \in Tables(ClusterRows, MaxClusterRows) })

Raise(e) ==
    /\ pc' = "raised"
    /\ err' = e

\* args, files = parse_args()
ParseArgs ==
    /\ pc = "parse_args"
    /\ IF parse_args(args, files) # ""
       THEN /\ Raise(parse_args(args, files))
            /\ k' = k
       ELSE /\ pc' = "read_csv"
            /\ k' = 1
            /\ err' = err
    /\ UNCHANGED <<args, files, data, git, f, reads, dots, rendered>>

\* data = []; git = None; data = read_csv(f, delimiter=",", comment="#")
ReadCsv ==
    /\ pc = "read_csv"
    /\ git' = None
    /\ data' = files[k].table
    /\ reads' = reads \cup {k}
    /\ pc' = "get_git_version"
    /\ UNCHANGED <<args, files, k, f, dots, rendered, err>>

\* git = get_git_version(f, git)
GetGitVersion ==
    /\ pc = "get_git_version"
    /\ LET r == get_git_version(files[k].line, git)
       IN IF r.raised
          THEN /\ Raise(ErrVersion)
               /\ git' = git
          ELSE /\ git' = r.value
               /\ pc' = "set_task_colours"
               /\ err' = err
    /\ UNCHANGED <<args, files, k, data, f, reads, dots, rendered>>

\* data = set_task_colours(data)
SetTaskColours ==
    /\ pc = "set_task_colours"
    /\ data' = set_task_colours(data)
    /\ pc' = "open_dot"
    /\ UNCHANGED <<args, files, k, git, f, reads, dots, rendered, err>>

\* with open(dot_output, "w") as f:
OpenDot ==
    /\ pc = "open_dot"
    /\ dots' = dots \cup {k}
    /\ f' = << >>
    /\ pc' = "write_header"
    /\ UNCHANGED <<args, files, k, data, git, reads, rendered, err>>

WriteHeader ==
    /\ pc = "write_header"
    /\ f' = write_header(f, data, git, args)
    /\ pc' = "write_clusters"
    /\ UNCHANGED <<args, files, k, data, git, reads, dots, rendered, err>>

WriteClusters ==
    /\ pc = "write_clusters"
    /\ f' = write_clusters(f, data)
    /\ pc' = "write_dependencies"
    /\ UNCHANGED <<args, files, k, data, git, reads, dots, rendered, err>>

WriteDependencies ==
    /\ pc = "write_dependencies"
    /\ LET r == write_dependencies(f, data)
       IN /\ f' = r.out
          /\ IF r.raised
             THEN Raise(ErrDuplicate)
             ELSE /\ pc' = "write_footer"
                  /\ err' = err
    /\ UNCHANGED <<args, files, k, data, git, reads, dots, rendered>>

WriteFooter ==
    /\ pc = "write_footer"
    /\ f' = write_footer(f)
    /\ pc' = "call_dot"
    /\ UNCHANGED <<args, files, k, data, git, reads, dots, rendered, err>>

\* call(["dot", "-Tpng", dot_output, "-o", png_output]), then the next file
CallDot ==
    /\ pc = "call_dot"
    /\ rendered' = rendered \cup {k}
    /\ IF k < Len(files)
       THEN /\ k' = k + 1
            /\ pc' = "read_csv"
       ELSE /\ k' = k
            /\ pc' = "done"
    /\ UNCHANGED <<args, files, data, git, f, reads, dots, err>>

Next ==
    \/ ParseArgs
    \/ ReadCsv
    \/ GetGitVersion
    \/ SetTaskColours
    \/ OpenDot
    \/ WriteHeader
    \/ WriteClusters
    \/ WriteDependencies
    \/ WriteFooter
    \/ CallDot

Spec == Init /\ [][Next]_vars
SpecColours == InitColours /\ [][Next]_vars
SpecDeps == InitDeps /\ [][Next]_vars
SpecHeader == InitHeader /\ [][Next]_vars
SpecClusters == InitClusters /\ [][Next]_vars

----------------------------------------------------------------------------
(* Properties *)

Edges(out) == SelectSeq(out, LAMBDA e : e.kind = "edge")
Nodes(out) == SelectSeq(out, LAMBDA e : e.kind = "node")
Blocks(out) == SelectSeq(out, LAMBDA e : e.kind = "cluster")

SamePair(d, i, j) == d[i].task_in = d[j].task_in /\ d[i].task_out = d[j].task_out

NoDuplicatePair(d) ==
    \A i \in 1..Len(d) : \A j \in 1..Len(d) : i # j => ~SamePair(d, i, j)

Coloured(row) == "task_colour" \in DOMAIN row

\* write_header has returned for the current file
HeaderWritten ==
    \/ pc \in {"write_clusters", "write_dependencies", "write_footer", "call_dot", "done"}
    \/ pc = "raised" /\ err = ErrDuplicate

\* write_clusters has returned for the current file
ClustersWritten ==
    \/ pc \in {"write_dependencies", "write_footer", "call_dot", "done"}
    \/ pc = "raised" /\ err = ErrDuplicate

\* write_dependencies has returned or raised for the current file
DependenciesWritten ==
    \/ pc \in {"write_footer", "call_dot", "done"}
    \/ pc = "raised" /\ err = ErrDuplicate

\* the version string get_git_version extracts from file i (with no previous version)
VersionOf(i) == get_git_version(files[i].line, None).value

\* C1: a file whose version string differs from that of an earlier file
\* never has its .dot opened for writing: the run aborts at that file.
C1_VersionMismatchAborts ==
    \A j \in dots : \A i \in 1..(j - 1) :
        ~(VersionOf(i).set /\ VersionOf(j).set /\ VersionOf(i).v # VersionOf(j).v)

\* C2: when two rows i < j have the same (task_in, task_out), write_dependencies
\* raises the duplicate-dependency error, and no edge is emitted for row j
\* (the edges emitted are those of rows before j).
C2_DuplicateRaises ==
    DependenciesWritten =>
        \A j \in 1..Len(data) :
            (\E i \in 1..(j - 1) : SamePair(data, i, j)) =>
                /\ pc = "raised"
                /\ err = ErrDuplicate
                /\ Len(Edges(f)) < j

C2_Witness ==
    /\ pc = "raised"
    /\ err = ErrDuplicate
    /\ Len(data) = 3
    /\ Len(Edges(f)) = 2
    /\ SamePair(data, 1, 3)
    /\ ~SamePair(data, 1, 2)

\* the cluster values of the table
ClusterValues(d) ==
    { d[i].cluster_in : i \in 1..Len(d) } \cup { d[i].cluster_out : i \in 1..Len(d) }

BlockCount(out, cluster) ==
    Cardinality({ b \in 1..Len(Blocks(out)) : Blocks(out)[b].name = "cluster" \o cluster })

\* C3 as stated: with cluster columns holding exactly "none" and "clusterA",
\* the only subgraph block is that of "clusterA".
C3_LowercaseSentinel ==
    (ClustersWritten /\ ClusterValues(data) = {"none", "clusterA"}) =>
        /\ Len(Blocks(f)) = 1
        /\ BlockCount(f, "clusterA") = 1
        /\ BlockCount(f, "none") = 0

\* C3 amended: write_clusters emits exactly one subgraph block per distinct
\* value of cluster_in or cluster_out other than the sentinel "None" (capital
\* N); any other value, "none" included, gets its block.
C3_OneBlockPerCluster ==
    ClustersWritten =>
        /\ \A c \in ClusterValues(data) :
               BlockCount(f, c) = IF c = "None" THEN 0 ELSE 1
        /\ Len(Blocks(f)) = Cardinality(ClusterValues(data) \ {"None"})

C3_Witness ==
    /\ ClustersWritten
    /\ ClusterValues(data) = {"None", "none", "clusterA"}
    /\ Len(Blocks(f)) = 2
    /\ BlockCount(f, "none") = 1

\* C4: for a table without duplicate pairs, write_dependencies emits one edge
\* per row, in row order, dashed iff the row's rank is not the maximum rank.
C4_OneEdgePerRowDashed ==
    (DependenciesWritten /\ NoDuplicatePair(data)) =>
        /\ pc # "raised"
        /\ Len(Edges(f)) = Len(data)
        /\ \A i \in 1..Len(data) :
               /\ Edges(f)[i].task_in = data[i].task_in
               /\ Edges(f)[i].task_out = data[i].task_out
               /\ Edges(f)[i].dashed <=>
                      (\E j \in 1..Len(data) : data[j].number_rank > data[i].number_rank)

HasColourAttr(node, colour) == ("color=" \o colour) \in Range(node.attrs)

\* C5: a task name containing "bh", "bpart" or "swallow" is classified
\* black_holes, in the task_colour column and in its node declaration.
C5_BlackHolesFirst ==
    LET bh(n) == Contains(n, "bh") \/ Contains(n, "bpart") \/ Contains(n, "swallow")
    IN /\ \A i \in 1..Len(data) :
              (Coloured(data[i]) /\ bh(data[i].task_in)) =>
                  data[i].task_colour = task_colours.black_holes
       /\ \A n \in 1..Len(Nodes(f)) :
              bh(Nodes(f)[n].name) =>
                  HasColourAttr(Nodes(f)[n], task_colours.black_holes)

C5_Witness ==
    /\ Len(data) = 1
    /\ Coloured(data[1])
    /\ Contains(data[1].task_in, "bh")
    /\ Contains(data[1].task_in, "stars")
    /\ data[1].task_colour = task_colours.black_holes
    /\ Len(Nodes(f)) = 2

\* C6: a task name containing "grav" or "gpart" that matches none of the
\* black-holes, stars and hydro predicates is classified gravity, also when
\* it matches the RT or sink predicate.
C6_GravityBeforeRTSink ==
    LET grav(n) ==
            /\ Contains(n, "grav") \/ Contains(n, "gpart")
            /\ ~task_is_black_holes(n)
            /\ ~task_is_stars(n)
            /\ ~task_is_hydro(n)
    IN /\ \A i \in 1..Len(data) :
              (Coloured(data[i]) /\ grav(data[i].task_in)) =>
                  data[i].task_colour = task_colours.gravity
       /\ \A n \in 1..Len(Nodes(f)) :
              grav(Nodes(f)[n].name) =>
                  HasColourAttr(Nodes(f)[n], task_colours.gravity)

C6_Witness ==
    /\ Len(data) = 1
    /\ Coloured(data[1])
    /\ Contains(data[1].task_in, "grav")
    /\ task_is_RT(data[1].task_in)
    /\ data[1].task_colour = task_colours.gravity
    /\ Len(Nodes(f)) = 2

\* C7 as stated: a name containing "density" and neither "stars" nor "bh" is
\* classified hydro.
C7_DensityIsHydro ==
    \A i \in 1..Len(data) :
        (/\ Coloured(data[i])
         /\ Contains(data[i].task_in, "density")
         /\ ~Contains(data[i].task_in, "stars")
         /\ ~Contains(data[i].task_in, "bh")) =>
            data[i].task_colour = task_colours.hydro

\* C7 amended: a name containing "density" is classified hydro unless it
\* contains one of "bh", "bpart", "swallow" (black holes) or one of "stars",
\* "spart", "sf_count" (stars).
C7_DensityIsHydroUnlessBlackHolesOrStars ==
    \A i \in 1..Len(data) :
        (/\ Coloured(data[i])
         /\ Contains(data[i].task_in, "density")
         /\ \A m \in {"bh", "bpart", "swallow", "stars", "spart", "sf_count"} :
                ~Contains(data[i].task_in, m)) =>
            data[i].task_colour = task_colours.hydro

C7_Witness ==
    /\ Len(data) = 1
    /\ Coloured(data[1])
    /\ Contains(data[1].task_in, "density")
    /\ Contains(data[1].task_in, "grav")
    /\ data[1].task_colour = task_colours.hydro

\* C8: with both --with-calls and --with-levels, or with a named file that
\* does not exist, the run ends in parse_args with an error: no input file is
\* read, no output file is opened, the renderer is not called.
C8_ParseArgsRaisesFirst ==
    ((args.with_calls /\ args.with_levels) \/ (\E i \in 1..Len(files) : ~files[i].exists)) =>
        /\ pc \in {"parse_args", "raised"}
        /\ pc = "raised" => err \in {ErrFileNotFound, ErrFlags}
        /\ reads = {}
        /\ dots = {}
        /\ rendered = {}
        /\ f = << >>

C8_Witness ==
    /\ pc = "raised"
    /\ err = ErrFlags
    /\ Len(files) = 2
    /\ files[1].table = CleanTable
    /\ files[2].table = CleanTable

\* the task names of the table
TaskNames(d) ==
    { d[i].task_in : i \in 1..Len(d) } \cup { d[i].task_out : i \in 1..Len(d) }

IsTaskIn(d, n) == \E i \in 1..Len(d) : d[i].task_in = n

FirstIn(d, n) ==
    CHOOSE i \in 1..Len(d) :
        d[i].task_in = n /\ \A j \in 1..(i - 1) : d[j].task_in # n

FirstOut(d, n) ==
    CHOOSE i \in 1..Len(d) :
        d[i].task_out = n /\ \A j \in 1..(i - 1) : d[j].task_out # n

\* C9: after write_header every task name of the table has exactly one node
\* declaration and nothing else is declared; a name occurring as task_in is
\* declared from its first task_in row and never pink; a name occurring only
\* as task_out is declared from its first row, pink iff that row's
\* cell_has_active_task is not 1.
C9_OneNodePerTask ==
    HeaderWritten =>
        /\ Len(Nodes(f)) = Cardinality(TaskNames(data))
        /\ \A n \in TaskNames(data) :
               \E p \in 1..Len(Nodes(f)) :
                   LET node == Nodes(f)[p]
                       active == IF IsTaskIn(data, n) THEN TRUE
                                 ELSE data[FirstOut(data, n)].cell_has_active_task = 1
                       implicit == IF IsTaskIn(data, n)
                                   THEN data[FirstIn(data, n)].implicit_in
                                   ELSE data[FirstOut(data, n)].implicit_out
                   IN /\ node.name = n
                      /\ \A q \in 1..Len(Nodes(f)) : Nodes(f)[q].name = n => q = p
                      /\ Pink \in Range(node.attrs) <=> ~active
                      /\ Grey \in Range(node.attrs) <=> (active /\ implicit # 0)

C9_Witness ==
    /\ HeaderWritten
    /\ Len(data) = 2
    /\ data[1].task_in = "sort" /\ data[1].task_out = "kick1"
    /\ data[2].task_in = "sort" /\ data[2].task_out = "kick1"
    /\ data[1].cell_has_active_task = 0 /\ data[2].cell_has_active_task = 1
    /\ data[1].implicit_in = 1 /\ data[2].implicit_in = 0
    /\ Len(Nodes(f)) = 2
    /\ Pink \in Range(Nodes(f)[2].attrs)
    /\ Grey \in Range(Nodes(f)[1].attrs)

\* C10: when the (task_in, task_out) pairs of the table are pairwise
\* distinct, the duplicate-dependency error is not raised.
C10_NoFalseDuplicate ==
    NoDuplicatePair(data) => err # ErrDuplicate

====
